---- MODULE Spec2Model ----
(***************************************************************************)
(* DouyinStream Pro: the adaptive multi-strategy extraction engine.        *)
(*                                                                         *)
(* core/extraction_strategies.py   the three strategies and the            *)
(*                                  AdaptiveExtractor (dispatcher + cache)  *)
(* desktop/core/douyin_extractor.py the synchronous fetch wrapper           *)
(* web/backend/core/douyin_extractor.py the asynchronous fetch wrapper      *)
(*                                                                         *)
(* An HTML page is abstracted to the features the regular expressions and  *)
(* the JSON navigation of the code read:                                   *)
(*   len      its length                                                   *)
(*   captcha  whether it contains the token TTGCaptcha                     *)
(*   offline  whether it contains one of the offline keywords              *)
(*   urls     the stream URL candidates, in document order                 *)
(*   title, nick   the first "title":"..." / "nickname":"..." (<<>>: none) *)
(*   pace     what there is of self.__pace_f.push([n,"w:..."])</script>    *)
(* A URL candidate is [id, fmt, q, tail, esc]:                             *)
(*   fmt   "flv" or "m3u8"                                                 *)
(*   q     the token matched by _(sd|hd|uhd|origin|ld)\. or "none"         *)
(*   tail  "plain": "https://.../x.flv"       (double-quoted, absolute)    *)
(*         "query": "https://.../x.flv?k=v"   (suffix not before a quote)  *)
(*         "rel":   '/x.flv' or "/x.flv"      (not matched by findall)     *)
(*   esc   whether it holds escapes (&, %3D) that _decode_url rewrites*)
(***************************************************************************)
EXTENDS Integers, Sequences, FiniteSets, TLC

\* ------------------------------------------------------------ bounds
MaxUrls == 3        \* URL candidates in a generated page
MaxItems == 2       \* elements of a generated JSON payload list
MaxCalls == 2       \* calls made in one behaviour

\* ------------------------------------------------------------ constants
SizeThreshold == 10000
QualityScanLimit == 10

QualityTokens == {"sd", "hd", "uhd", "origin", "ld"}

DirectURLStrategy == "DirectURLStrategy"
JSONWrapperStrategy == "JSONWrapperStrategy"
LegacyJSONStrategy == "LegacyJSONStrategy"

\* ExtractionStrategy.__init__ / the subclasses' __init__: self.priority
priority(s) ==
    CASE s = DirectURLStrategy -> 1
      [] s = JSONWrapperStrategy -> 2
      [] s = LegacyJSONStrategy -> 3

\* ------------------------------------------------------------ values
Null == [kind |-> "null"]
NoUrl == [id |-> 0, fmt |-> "none", q |-> "none", tail |-> "none", esc |-> FALSE]
EmptyDict == <<>>

Get(opt, default) == IF opt = <<>> THEN default ELSE opt[1]

Record(url, title, author, is_live, qualities) ==
    [kind |-> "record", url |-> url, title |-> title, author |-> author,
     is_live |-> is_live, qualities |-> qualities]

Values(f) == {f[k] : k \in DOMAIN f}

\* dict assignment d[k] = v
Put(d, k, v) == [x \in DOMAIN d \cup {k} |-> IF x = k THEN v ELSE d[x]]

Take(s, n) == SubSeq(s, 1, IF Len(s) < n THEN Len(s) ELSE n)

\* What the body of a try block did: it returned `value`, or raised; and how
\* often it had called log_success / log_failure by then.
Ret(v, s, f) == [kind |-> "return", value |-> v, succ |-> s, fail |-> f]
Raised(s, f) == [kind |-> "raise", value |-> Null, succ |-> s, fail |-> f]

\* the except block left out: the exception leaves extract
CatchAll_reraise(b) == b

\* except Exception as e: self.log_failure(str(e)); return None
CatchAll(b) ==
    IF b.kind = "raise" THEN Ret(Null, b.succ, b.fail + 1) ELSE b

\* ------------------------------------------------------------ strategy 1
FindAll(h, fmt) ==
    SelectSeq(h.urls, LAMBDA u : u.fmt = fmt /\ u.tail \in {"plain", "query"})

DirectURLStrategy_can_extract(h) ==
    \E i \in DOMAIN h.urls : h.urls[i].tail \in {"plain", "rel"}

RECURSIVE QualityVariants(_, _)
QualityVariants(cands, qualities) ==
    IF cands = <<>> THEN qualities
    ELSE LET url == Head(cands)
             next == IF url.q \in QualityTokens /\ url.q \notin DOMAIN qualities
                     THEN Put(qualities, url.q, url)
                     ELSE qualities
         IN QualityVariants(Tail(cands), next)

\* the emptiness check left out and a record built from the defaults
DirectURLStrategy_body_default(h) ==
    LET found == FindAll(h, "flv") \o FindAll(h, "m3u8")
        best_url == IF found # <<>> THEN found[1] ELSE NoUrl
    IN Ret(Record(best_url, Get(h.title, "Douyin Live"), Get(h.nick, "Unknown"), TRUE,
                  Put(EmptyDict, "best", best_url)), 1, 0)

\* best_url taken from the quality map: the candidate of the best label
DirectURLStrategy_body_by_label(h) ==
    LET found == FindAll(h, "flv") \o FindAll(h, "m3u8")
        labelled == SelectSeq(found, LAMBDA u : u.q = "hd")
        best_url == IF labelled # <<>> THEN labelled[1] ELSE found[1]
    IN IF found = <<>> THEN Ret(Null, 0, 1)
       ELSE Ret(Record(best_url, Get(h.title, "Douyin Live"), Get(h.nick, "Unknown"),
                       TRUE, Put(EmptyDict, "best", best_url)), 1, 0)

DirectURLStrategy_body(h) ==
    LET flv_urls == FindAll(h, "flv")
        m3u8_urls == FindAll(h, "m3u8")
    IN IF flv_urls = <<>> /\ m3u8_urls = <<>>
       THEN Ret(Null, 0, 1)
       ELSE LET best_url == IF flv_urls # <<>> THEN flv_urls[1] ELSE m3u8_urls[1]
                found == QualityVariants(Take(flv_urls \o m3u8_urls, QualityScanLimit),
                                         EmptyDict)
                qualities == IF DOMAIN found = {} THEN Put(EmptyDict, "best", best_url)
                             ELSE found
            IN Ret(Record(best_url, Get(h.title, "Douyin Live"),
                          Get(h.nick, "Unknown"), TRUE, qualities), 1, 0)

DirectURLStrategy_extract(h) == CatchAll(DirectURLStrategy_body(h))

\* ------------------------------------------------------------ strategy 2
\* pace.kind: "none"    no __pace_f in the page
\*            "bare"    __pace_f, but no streamStore after it on its line
\*            "marker"  __pace_f ... streamStore on one line, but no push call of
\*                      the expected form whose string holds streamStore
\*            "push"    self.__pace_f.push([n,"w:<payload>"])</script> with
\*                      streamStore in the payload (the first such call)
\* pace.esc:  "all"     the payload's quotes are written \" (a JS string literal)
\*            "none"    the payload is plain JSON text
\*            "inner"   plain JSON text with \" inside one of its strings
\* pace.json: what json.loads makes of the payload once it is well-quoted
JSONWrapperStrategy_can_extract(h) == h.pace.kind \in {"marker", "push"}

RaiseVal == [t |-> "raise"]

\* data_str.replace('\\"', '"'); json.loads(data_str)
JSONWrapperStrategy_loads(pace) ==
    IF pace.esc = "inner" \/ pace.json.t = "malformed" THEN RaiseVal ELSE pace.json

\* the scan run forward: the first element with a state
LastState_first(items) ==
    LET hit == {i \in DOMAIN items : items[i].t = "state"}
    IN IF hit = {} THEN <<>>
       ELSE <<items[CHOOSE i \in hit : \A j \in hit : i <= j].state>>

\* for item in reversed(data): if isinstance(item, dict) and 'state' in item
RECURSIVE LastState(_)
LastState(items) ==
    IF items = <<>> THEN <<>>
    ELSE LET item == items[Len(items)]
         IN IF item.t = "state" THEN <<item.state>>
            ELSE LastState(SubSeq(items, 1, Len(items) - 1))

\* for quality_name, quality_data in stream.items(): ...
\* entry.t: "nondict"  quality_data is no dict
\*          "empty"    no main, or no flv, or flv == ''
\*          "badmain"  main is no dict (main_data.get raises)
\*          "url"      main.flv is entry.url
RECURSIVE StreamLoop(_, _, _)
StreamLoop(entries, qualities, best_url) ==
    IF entries = <<>> THEN [kind |-> "ok", qualities |-> qualities, best_url |-> best_url]
    ELSE LET e == Head(entries)
         IN CASE e.t = "badmain" -> [kind |-> "raise", qualities |-> qualities,
                                     best_url |-> best_url]
              [] e.t = "url" -> StreamLoop(Tail(entries), Put(qualities, e.name, e.url),
                                           IF best_url = <<>> THEN <<e.url>> ELSE best_url)
              [] OTHER -> StreamLoop(Tail(entries), qualities, best_url)

RoomTitle(room) == IF room.t = "ok" THEN Get(room.title, "Douyin Live") ELSE "Douyin Live"
RoomAuthor(room) == IF room.t = "ok" THEN Get(room.nick, "Unknown") ELSE "Unknown"
\* status taken as live whatever the payload says
RoomStatus_live(room) == 2

RoomStatus(room) == IF room.t = "ok" THEN Get(room.status, 0) ELSE 0

JSONWrapperStrategy_state(state) ==
    IF state.t = "str" \/ state.room.t = "badtype" THEN Raised(0, 0)
    ELSE LET title == RoomTitle(state.room)
             author == RoomAuthor(state.room)
             is_live == (RoomStatus(state.room) = 2)
         IN IF state.streams.t = "badtype" THEN Raised(0, 0)
            ELSE IF state.streams.t = "missing" \/ state.streams.entries = <<>>
            THEN Ret(Null, 0, 1)
            ELSE LET loop == StreamLoop(state.streams.entries, EmptyDict, <<>>)
                 IN IF loop.kind = "raise" THEN Raised(0, 0)
                    ELSE IF loop.best_url = <<>> THEN Ret(Null, 0, 1)
                    ELSE Ret(Record(loop.best_url[1], title, author, is_live,
                                    loop.qualities), 1, 0)

JSONWrapperStrategy_body(h) ==
    IF h.pace.kind # "push" THEN Ret(Null, 0, 1)
    ELSE LET data == JSONWrapperStrategy_loads(h.pace)
         IN IF data.t = "raise" THEN Raised(0, 0)
            ELSE LET found == IF data.t = "list" THEN LastState(data.items) ELSE <<>>
                 IN IF found = <<>> \/ found[1].t \in {"none", "empty"}
                    THEN Ret(Null, 0, 1)
                    ELSE JSONWrapperStrategy_state(found[1])

JSONWrapperStrategy_extract(h) == CatchAll(JSONWrapperStrategy_body(h))

\* ------------------------------------------------------------ strategy 3
LegacyJSONStrategy_can_extract(h) == h.pace.kind \in {"bare", "marker", "push"}

\* json.loads(data_str), the quotes not unescaped
LegacyJSONStrategy_loads(pace) ==
    IF pace.esc = "all" \/ pace.json.t = "malformed" THEN RaiseVal ELSE pace.json

RECURSIVE LegacyJSONStrategy_loop(_)
LegacyJSONStrategy_loop(items) ==
    IF items = <<>> THEN Ret(Null, 0, 1)
    ELSE LET item == Head(items)
             rest == Tail(items)
         IN IF item.t # "state" THEN LegacyJSONStrategy_loop(rest)
            ELSE LET state == item.state
                 IN CASE state.t \in {"none", "str"} -> Raised(0, 0)
                      [] state.t = "empty" -> LegacyJSONStrategy_loop(rest)
                      [] OTHER ->
                         IF state.room.t = "badtype" \/ state.streams.t = "badtype"
                         THEN Raised(0, 0)
                         ELSE IF state.streams.t = "missing" \/ state.streams.entries = <<>>
                         THEN LegacyJSONStrategy_loop(rest)
                         ELSE LET loop == StreamLoop(state.streams.entries, EmptyDict, <<>>)
                              IN IF loop.kind = "raise" THEN Raised(0, 0)
                                 ELSE IF loop.best_url = <<>>
                                 THEN LegacyJSONStrategy_loop(rest)
                                 ELSE Ret(Record(loop.best_url[1], RoomTitle(state.room),
                                                 RoomAuthor(state.room), TRUE,
                                                 loop.qualities), 1, 0)

LegacyJSONStrategy_body(h) ==
    IF h.pace.kind # "push" THEN Ret(Null, 0, 1)
    ELSE LET data == LegacyJSONStrategy_loads(h.pace)
         IN IF data.t = "raise" THEN Raised(0, 0)
            ELSE IF data.t # "list" THEN Ret(Null, 0, 1)
            ELSE LegacyJSONStrategy_loop(data.items)

LegacyJSONStrategy_extract(h) == CatchAll(LegacyJSONStrategy_body(h))

\* ------------------------------------------------------------ the strategy objects
StrategyNames == {DirectURLStrategy, JSONWrapperStrategy, LegacyJSONStrategy}

can_extract(s, h) ==
    CASE s = DirectURLStrategy -> DirectURLStrategy_can_extract(h)
      [] s = JSONWrapperStrategy -> JSONWrapperStrategy_can_extract(h)
      [] s = LegacyJSONStrategy -> LegacyJSONStrategy_can_extract(h)

extract(s, h) ==
    CASE s = DirectURLStrategy -> DirectURLStrategy_extract(h)
      [] s = JSONWrapperStrategy -> JSONWrapperStrategy_extract(h)
      [] s = LegacyJSONStrategy -> LegacyJSONStrategy_extract(h)

\* ExtractionStrategy.__init__: both counters 0
NewCounts == [s \in StrategyNames |-> [success_count |-> 0, failure_count |-> 0]]

\* log_success counting nothing
Logged_failures_only(counts, s, r) ==
    [counts EXCEPT ![s] = [success_count |-> @.success_count,
                           failure_count |-> @.failure_count + r.fail]]

\* log_success / log_failure as often as the call of extract made them
Logged(counts, s, r) ==
    [counts EXCEPT ![s] = [success_count |-> @.success_count + r.succ,
                           failure_count |-> @.failure_count + r.fail]]

\* ------------------------------------------------------------ pages
MkUrl(i, f, e) == [id |-> i, fmt |-> f.fmt, q |-> f.q, tail |-> f.tail, esc |-> e]

UrlFeatures ==
    [fmt : {"flv", "m3u8"}, q : {"none", "hd", "sd"}, tail : {"plain"}]
    \cup [fmt : {"flv", "m3u8"}, q : {"hd"}, tail : {"rel"}]
    \cup [fmt : {"flv", "m3u8"}, q : {"none"}, tail : {"query"}]

\* every list of at most n candidates; the i-th candidate is the string with id i
UrlLists(n, e) ==
    UNION {{[i \in 1..k |-> MkUrl(i, f[i], e)] : f \in [1..k -> UrlFeatures]} : k \in 0..n}

\* a flv URL held by the JSON payload (not matched by strategy 1: not http(s))
PayloadUrl(n) == [id |-> 10 + n, fmt |-> "flv", q |-> "none", tail |-> "json", esc |-> FALSE]

EntryVariants(name, n) ==
    {[name |-> name, t |-> t, url |-> NoUrl] : t \in {"nondict", "empty", "badmain"}}
    \cup {[name |-> name, t |-> "url", url |-> PayloadUrl(n)]}

StreamEntries ==
    {<<>>}
    \cup {<<e>> : e \in EntryVariants("origin", 1) \cup EntryVariants("hd", 2)}
    \cup {<<a, b>> : <<a, b>> \in EntryVariants("origin", 1) \X EntryVariants("hd", 2)}
    \cup {<<b, a>> : <<a, b>> \in EntryVariants("origin", 1) \X EntryVariants("hd", 2)}

StreamMaps ==
    {[t |-> "missing"], [t |-> "badtype"]}
    \cup {[t |-> "map", entries |-> es] : es \in StreamEntries}

Rooms ==
    {[t |-> "missing"], [t |-> "badtype"]}
    \cup [t : {"ok"}, title : {<<>>, <<"T1">>}, nick : {<<>>, <<"N1">>},
          status : {<<>>, <<2>>, <<4>>}]

NonDictStates == {[t |-> "none"], [t |-> "empty"], [t |-> "str"]}
DictState(room, streams) == [t |-> "dict", room |-> room, streams |-> streams]

States == NonDictStates \cup {DictState(r, m) : <<r, m>> \in Rooms \X StreamMaps}

OtherItem == [t |-> "other"]
StateItem(st) == [t |-> "state", state |-> st]

OneUrl(name, n) == [t |-> "map", entries |-> <<[name |-> name, t |-> "url", url |-> PayloadUrl(n)]>>]
LiveRoom == [t |-> "ok", title |-> <<"T1">>, nick |-> <<"N1">>, status |-> <<2>>]
EndedRoom == [t |-> "ok", title |-> <<"T2">>, nick |-> <<>>, status |-> <<4>>]

\* the elements the longer payload lists are made of
SmallItems ==
    {OtherItem}
    \cup {StateItem(st) : st \in NonDictStates}
    \cup {StateItem(DictState(LiveRoom, OneUrl("origin", 1))),
          StateItem(DictState(EndedRoom, OneUrl("hd", 2))),
          StateItem(DictState(LiveRoom, [t |-> "missing"])),
          StateItem(DictState([t |-> "missing"], [t |-> "badtype"]))}

JsonValues ==
    {[t |-> "malformed"], [t |-> "nonlist"]}
    \cup {[t |-> "list", items |-> <<StateItem(st)>>] : st \in States}
    \cup {[t |-> "list", items |-> is] : is \in UNION {[1..k -> SmallItems] : k \in 0..MaxItems}}

NoPace(kind) == [kind |-> kind, esc |-> "none", json |-> [t |-> "malformed"]]
Push(esc, json) == [kind |-> "push", esc |-> esc, json |-> json]

Paces ==
    {NoPace(k) : k \in {"none", "bare", "marker"}}
    \cup {Push(e, j) : <<e, j>> \in {"all", "none", "inner"} \X JsonValues}

Page(len, captcha, offline, urls, title, nick, pace) ==
    [len |-> len, captcha |-> captcha, offline |-> offline, urls |-> urls,
     title |-> title, nick |-> nick, pace |-> pace]

\* the pages the strategies are run on: every list of candidates, the short
\* lists also with escapes and with a title and a nickname, and every payload
StrategyPages ==
    {Page(50000, FALSE, FALSE, us, <<>>, <<>>, NoPace("none")) : us \in UrlLists(MaxUrls, FALSE)}
    \cup {Page(50000, FALSE, FALSE, us, m[1], m[2], NoPace("none")) :
            <<us, m>> \in (UrlLists(1, FALSE) \cup UrlLists(2, TRUE))
                          \X {<<<<>>, <<>>>>, <<<<"T0">>, <<>>>>, <<<<"T0">>, <<"N0">>>>}}
    \cup {Page(50000, FALSE, FALSE, <<>>, <<>>, <<>>, pc) : pc \in Paces}
    \cup {Page(0, FALSE, FALSE, <<>>, <<>>, <<>>, NoPace("none"))}

\* ------------------------------------------------------------ state
VARIABLES
    page,       \* the HTML the sequential specifications work on
    ext,        \* an AdaptiveExtractor: last_working_strategy and the counters
    last,       \* what the last call did (sequential specifications)
    prev,       \* what the call before it did
    file,       \* the cache file .strategy_cache.json
    clock,      \* datetime.now()
    mode,       \* which program runs: "desktop" or "web"
    calls,      \* wrapper calls started so far
    th,         \* the threads (desktop) or coroutines (web) in a wrapper call
    cm,         \* the CookieManager, its cookie file and the coroutines calling it
    lc          \* the desktop LiveStatusChecker, its threads and its caller

vars == <<page, ext, last, prev, file, clock, mode, calls, th, cm, lc>>

\* the part of the state a specification does not use
Unused == <<>>

Idle == [op |-> "none"]

\* ------------------------------------------------------------ the strategies alone
NewExtractor(lws) == [last_working_strategy |-> lws, counts |-> NewCounts]

NoFile == [st |-> "absent", bytes |-> <<>>]

StratInit ==
    /\ page \in StrategyPages
    /\ ext = NewExtractor("")
    /\ last = Idle
    /\ prev = Idle
    /\ file = NoFile
    /\ clock = 0
    /\ mode = "none"
    /\ calls = 0
    /\ th = <<>>
    /\ cm = Unused
    /\ lc = Unused

\* strategy.extract(html, cookies) on a fresh strategy object
RunStrategy(s) ==
    /\ last = Idle
    /\ LET r == extract(s, page)
       IN /\ last' = [op |-> "extract", strategy |-> s, value |-> r.value,
                      raised |-> (r.kind = "raise"), before |-> ext.counts]
          /\ ext' = [ext EXCEPT !.counts = Logged(ext.counts, s, r)]
    /\ UNCHANGED <<page, prev, file, clock, mode, calls, th, cm, lc>>


\* ------------------------------------------------------------ the cache file
\* file.st: "absent", "unreadable" (open raises) or "ok"; file.bytes: its content.
\* A JSON document is written as DocLen(doc) units, the i-th being [doc, i]:
\* a file parses when it is exactly the units of one document.
\* last_working_strategy is held as a string: "None" is Python's None, "7" the
\* number 7 (a value of the wrong type), "Bogus" a name no strategy has.
None == "None"
Truthy(v) == v \notin {None, ""}

CacheDoc(name, ts) == [shape |-> "dict", lws |-> <<name>>, ts |-> ts]
OtherDocs ==
    {[shape |-> "garbage"],                                 \* not JSON
     [shape |-> "list"],                                    \* JSON, no object
     [shape |-> "dict", lws |-> <<>>, ts |-> 0],             \* no such key
     CacheDoc("7", 0),                                      \* a value of the wrong type
     CacheDoc("Bogus", 0)}                                  \* a name of no strategy

\* json.dump writes the name in full: the longer the name, the longer the file
DocLen(doc) ==
    IF doc.shape = "dict" /\ doc.lws # <<>>
    THEN CASE doc.lws[1] = JSONWrapperStrategy -> 3
           [] doc.lws[1] = LegacyJSONStrategy -> 2
           [] OTHER -> 1
    ELSE 1

Encode(doc) == [i \in 1..DocLen(doc) |-> [doc |-> doc, i |-> i]]

\* json.load(f): the document, or a JSONDecodeError
json_load(bytes) ==
    IF bytes # <<>> /\ bytes[1].doc.shape # "garbage" /\ bytes = Encode(bytes[1].doc)
    THEN bytes[1].doc
    ELSE [shape |-> "error"]

FileOf(doc) == [st |-> "ok", bytes |-> Encode(doc)]

InitFiles ==
    {NoFile, [st |-> "unreadable", bytes |-> <<>>], [st |-> "ok", bytes |-> <<>>]}
    \cup {FileOf(d) : d \in OtherDocs}
    \cup {FileOf(CacheDoc(s, 0)) : s \in StrategyNames}

\* AdaptiveExtractor._load_cache: the value last_working_strategy is left with
load_cache(f) ==
    IF f.st = "absent" THEN None
    ELSE IF f.st = "unreadable" THEN None
    ELSE LET cache == json_load(f.bytes)
         IN IF cache.shape = "dict" THEN Get(cache.lws, None)
            ELSE None

\* open(self.cache_file, 'w'): the file is created or truncated
open_w(f) == [st |-> "ok", bytes |-> <<>>]

\* json.dump(cache, f) and the close of the with block: the buffered text is
\* written from offset 0, over whatever the file holds by then
write_at_0(f, out) ==
    [f EXCEPT !.bytes = out \o SubSeq(f.bytes, Len(out) + 1, Len(f.bytes))]

\* The try block of AdaptiveExtractor._save_cache, run without interruption; io
\* is what the file system does: "ok", "open_fails" or "write_fails".
save_cache_body(f, strategy_name, now, io) ==
    IF io = "open_fails" \/ f.st = "unreadable" THEN [file |-> f, raised |-> TRUE]
    ELSE IF io = "write_fails" THEN [file |-> open_w(f), raised |-> TRUE]
    ELSE [file |-> write_at_0(open_w(f), Encode(CacheDoc(strategy_name, now))),
          raised |-> FALSE]

\* the except block left out: the exception leaves _save_cache
save_cache_uncaught(f, strategy_name, now, io) == save_cache_body(f, strategy_name, now, io)

\* except Exception as e: logging.debug(...)
save_cache(f, strategy_name, now, io) ==
    [save_cache_body(f, strategy_name, now, io) EXCEPT !.raised = FALSE]

IOs == {"ok", "open_fails", "write_fails"}

\* ------------------------------------------------------------ the dispatcher
RECURSIVE Insert(_, _)
Insert(sorted, s) ==
    IF sorted = <<>> THEN <<s>>
    ELSE IF priority(s) < priority(Head(sorted)) THEN <<s>> \o sorted
    ELSE <<Head(sorted)>> \o Insert(Tail(sorted), s)

\* sorted with reverse=True
strategies_descending ==
    <<LegacyJSONStrategy, JSONWrapperStrategy, DirectURLStrategy>>

\* self.strategies, after self.strategies.sort(key=lambda s: s.priority)
strategies ==
    Insert(Insert(Insert(<<>>, DirectURLStrategy), JSONWrapperStrategy), LegacyJSONStrategy)

\* AdaptiveExtractor.__init__
AdaptiveExtractor_init(f) == NewExtractor(load_cache(f))

Ev(op, s) == [op |-> op, s |-> s]

\* A dispatch in progress: the extractor, the calls made so far, and how it ended
\* ("run": not yet; "return"; "raise": an exception left a strategy).
Run(e) == [ext |-> e, trace |-> <<>>, end |-> "run", value |-> Null, save |-> <<>>]

\* extract called without the pre-check
Attempt_unchecked(run, s, h) ==
    LET r == extract(s, h)
    IN [run EXCEPT !.trace = @ \o <<Ev("can_extract", s), Ev("extract", s)>>,
                   !.ext.counts = Logged(@, s, r),
                   !.end = IF r.kind = "raise" THEN "raise" ELSE "run",
                   !.value = r.value]

\* a failed pre-check counted as a failure of the strategy
Attempt_logs_skip(run, s, h) ==
    IF ~can_extract(s, h)
    THEN [run EXCEPT !.trace = @ \o <<Ev("can_extract", s)>>,
                     !.ext.counts = Logged(@, s, Ret(Null, 0, 1))]
    ELSE LET r == extract(s, h)
         IN [run EXCEPT !.trace = @ \o <<Ev("can_extract", s), Ev("extract", s)>>,
                        !.ext.counts = Logged(@, s, r),
                        !.end = IF r.kind = "raise" THEN "raise" ELSE "run",
                        !.value = r.value]

\* if strategy.can_extract(html): result = strategy.extract(html, cookies)
Attempt(run, s, h) ==
    IF ~can_extract(s, h)
    THEN [run EXCEPT !.trace = @ \o <<Ev("can_extract", s)>>]
    ELSE LET r == extract(s, h)
         IN [run EXCEPT !.trace = @ \o <<Ev("can_extract", s), Ev("extract", s)>>,
                        !.ext.counts = Logged(@, s, r),
                        !.end = IF r.kind = "raise" THEN "raise" ELSE "run",
                        !.value = r.value]

\* the cached strategy not tried first (and still skipped by the second loop)
CachedLoop_dropped(run, h) == run

\* a hit of the cached strategy written to the cache file as well
CachedLoop_saves(run, h) ==
    LET lws == run.ext.last_working_strategy
        hit == {i \in DOMAIN strategies : strategies[i] = lws}
    IN IF ~Truthy(lws) \/ hit = {} THEN run
       ELSE LET a == Attempt(run, lws, h)
            IN IF a.end = "run" /\ a.value # Null
               THEN [a EXCEPT !.end = "return", !.save = <<lws>>]
               ELSE [a EXCEPT !.value = Null]

\* the cached strategy tried once more after a miss
CachedLoop_again(run, h) ==
    LET lws == run.ext.last_working_strategy
        hit == {i \in DOMAIN strategies : strategies[i] = lws}
    IN IF ~Truthy(lws) \/ hit = {} THEN run
       ELSE LET a == Attempt(run, lws, h)
            IN IF a.end = "run" /\ a.value # Null
               THEN [a EXCEPT !.end = "return"]
               ELSE [Attempt([a EXCEPT !.value = Null], lws, h) EXCEPT !.value = Null]

\* if self.last_working_strategy: for strategy in self.strategies: ...
CachedLoop(run, h) ==
    LET lws == run.ext.last_working_strategy
        hit == {i \in DOMAIN strategies : strategies[i] = lws}
    IN IF ~Truthy(lws) \/ hit = {} THEN run
       ELSE LET a == Attempt(run, lws, h)
            IN IF a.end = "run" /\ a.value # Null
               THEN [a EXCEPT !.end = "return"]
               ELSE [a EXCEPT !.value = Null]

\* self.last_working_strategy = strategy.name left out
RECURSIVE PriorityLoop_forgets(_, _, _)
PriorityLoop_forgets(run, h, i) ==
    IF run.end # "run" THEN run
    ELSE IF i > Len(strategies) THEN [run EXCEPT !.end = "return", !.value = Null]
    ELSE LET s == strategies[i]
         IN IF s = run.ext.last_working_strategy THEN PriorityLoop_forgets(run, h, i + 1)
            ELSE LET a == Attempt(run, s, h)
                 IN IF a.end = "run" /\ a.value # Null
                    THEN [a EXCEPT !.save = <<s>>, !.end = "return"]
                    ELSE PriorityLoop_forgets([a EXCEPT !.value = Null], h, i + 1)

\* last_working_strategy assigned only when it is empty
RECURSIVE PriorityLoop_keeps(_, _, _)
PriorityLoop_keeps(run, h, i) ==
    IF run.end # "run" THEN run
    ELSE IF i > Len(strategies) THEN [run EXCEPT !.end = "return", !.value = Null]
    ELSE LET s == strategies[i]
         IN IF s = run.ext.last_working_strategy THEN PriorityLoop_keeps(run, h, i + 1)
            ELSE LET a == Attempt(run, s, h)
                 IN IF a.end = "run" /\ a.value # Null
                    THEN [a EXCEPT !.ext.last_working_strategy =
                                       IF Truthy(@) THEN @ ELSE s,
                                   !.save = <<s>>,
                                   !.end = "return"]
                    ELSE PriorityLoop_keeps([a EXCEPT !.value = Null], h, i + 1)

\* the strategy already tried not skipped
RECURSIVE PriorityLoop_retries(_, _, _)
PriorityLoop_retries(run, h, i) ==
    IF run.end # "run" THEN run
    ELSE IF i > Len(strategies) THEN [run EXCEPT !.end = "return", !.value = Null]
    ELSE LET s == strategies[i]
             a == Attempt(run, s, h)
         IN IF a.end = "run" /\ a.value # Null
            THEN [a EXCEPT !.ext.last_working_strategy = s,
                           !.save = <<s>>,
                           !.end = "return"]
            ELSE PriorityLoop_retries([a EXCEPT !.value = Null], h, i + 1)

\* for strategy in self.strategies: ... (from the i-th on)
RECURSIVE PriorityLoop(_, _, _)
PriorityLoop(run, h, i) ==
    IF run.end # "run" THEN run
    ELSE IF i > Len(strategies) THEN [run EXCEPT !.end = "return", !.value = Null]
    ELSE LET s == strategies[i]
         IN IF s = run.ext.last_working_strategy THEN PriorityLoop(run, h, i + 1)
            ELSE LET a == Attempt(run, s, h)
                 IN IF a.end = "run" /\ a.value # Null
                    THEN [a EXCEPT !.ext.last_working_strategy = s,
                                   !.save = <<s>>,
                                   !.end = "return"]
                    ELSE PriorityLoop([a EXCEPT !.value = Null], h, i + 1)

\* AdaptiveExtractor.extract, up to the call of _save_cache
AdaptiveExtractor_extract(e, h) == PriorityLoop(CachedLoop(Run(e), h), h, 1)

\* ------------------------------------------------------------ one dispatch of a page
\* what last_working_strategy can be after AdaptiveExtractor.__init__
CacheStates == {None} \cup StrategyNames

\* extractor.extract(html, cookies) of an extractor whose cache holds lws, the
\* write of the cache included
RunExtractor(lws, io) ==
    /\ last = Idle
    /\ \E run \in {AdaptiveExtractor_extract(NewExtractor(lws), page)} :
       \E sv \in {IF run.save # <<>> THEN save_cache(file, run.save[1], clock + 1, io)
                  ELSE [file |-> file, raised |-> FALSE]} :
          /\ io = "ok" \/ run.save # <<>>
          /\ ext' = run.ext
          /\ file' = sv.file
          /\ clock' = IF run.save # <<>> THEN clock + 1 ELSE clock
          /\ last' = [op |-> "dispatch", strategy |-> "AdaptiveExtractor",
                      value |-> IF sv.raised THEN Null ELSE run.value,
                      raised |-> (run.end = "raise" \/ sv.raised),
                      before |-> NewExtractor(lws).counts]
    /\ UNCHANGED <<page, prev, mode, calls, th, cm, lc>>

StratNext ==
    \/ \E s \in StrategyNames : RunStrategy(s)
    \/ \E lws \in CacheStates, io \in IOs : RunExtractor(lws, io)

SpecStrat == StratInit /\ [][StratNext]_vars

\* ------------------------------------------------------------ pages to dispatch
Cand(i, fmt, q, tail, e) == [id |-> i, fmt |-> fmt, q |-> q, tail |-> tail, esc |-> e]

BigPage(urls, pace) == Page(50000, FALSE, FALSE, urls, <<>>, <<>>, pace)

GoodItem == StateItem(DictState(LiveRoom, OneUrl("origin", 1)))
Wrapped == Push("all", [t |-> "list", items |-> <<OtherItem, GoodItem>>])
Unwrapped == Push("none", [t |-> "list", items |-> <<GoodItem>>])
FirstOnly == Push("none", [t |-> "list", items |-> <<GoodItem, StateItem([t |-> "empty"])>>])
Truncated == Push("all", [t |-> "malformed"])

\* One page for each way the three pre-checks and extractions can come out that
\* the dispatcher can tell apart (strategy 1; strategy 2; strategy 3):
DispatchPages ==
    {BigPage(<<>>, NoPace("none")),                                    \* -; -; -
     BigPage(<<Cand(1, "flv", "none", "query", FALSE)>>, NoPace("bare")),     \* -; -; null
     BigPage(<<Cand(1, "flv", "hd", "rel", FALSE)>>, NoPace("marker")),        \* null; null; null
     BigPage(<<Cand(1, "flv", "hd", "plain", FALSE)>>, NoPace("none")),        \* rec; -; -
     BigPage(<<Cand(1, "flv", "hd", "rel", FALSE)>>, Wrapped),                 \* null; rec; null
     BigPage(<<>>, FirstOnly),                                          \* -; null; rec
     BigPage(<<>>, Unwrapped),                                          \* -; rec; rec
     BigPage(<<Cand(1, "m3u8", "sd", "plain", FALSE)>>, Unwrapped),            \* rec; rec; rec
     BigPage(<<Cand(1, "flv", "none", "plain", TRUE),
               Cand(2, "flv", "hd", "plain", FALSE)>>, Truncated)}             \* rec; null; null

\* ------------------------------------------------------------ one extractor, call after call
\* the strategy whose record a dispatch returned ("" when it returned none)
Winner(run) ==
    IF run.end = "return" /\ run.value # Null
    THEN run.trace[Len(run.trace)].s
    ELSE ""

Summary(l) ==
    IF l.op = "extract"
    THEN [op |-> "extract", html |-> l.html, value |-> l.value, winner |-> l.winner,
          before |-> l.before.last_working_strategy,
          after |-> l.after.last_working_strategy, legacy_won |-> l.legacy_won]
    ELSE [op |-> "init", loaded |-> l.loaded, legacy_won |-> l.legacy_won]

SeqInit ==
    /\ file \in InitFiles
    /\ ext = AdaptiveExtractor_init(file)
    /\ page = Page(0, FALSE, FALSE, <<>>, <<>>, <<>>, NoPace("none"))
    /\ last = [op |-> "init", loaded |-> ext.last_working_strategy, file |-> file,
               legacy_won |-> FALSE]
    /\ prev = Idle
    /\ clock = 0
    /\ mode = "none"
    /\ calls = 0
    /\ th = <<>>
    /\ cm = Unused
    /\ lc = Unused

\* extractor.extract(html, cookies), the write of the cache included
Dispatch(h, io) ==
    /\ calls < MaxCalls
    /\ \E run \in {AdaptiveExtractor_extract(ext, h)} :
       \E sv \in {IF run.save # <<>> THEN save_cache(file, run.save[1], clock + 1, io)
                  ELSE [file |-> file, raised |-> FALSE]} :
          /\ io = "ok" \/ run.save # <<>>
          /\ ext' = run.ext
          /\ file' = sv.file
          /\ clock' = IF run.save # <<>> THEN clock + 1 ELSE clock
          /\ last' = [op |-> "extract", html |-> h, before |-> ext, after |-> run.ext,
                      value |-> IF sv.raised THEN Null ELSE run.value,
                      raised |-> (run.end = "raise" \/ sv.raised),
                      winner |-> Winner(run),
                      trace |-> run.trace, save |-> run.save, io |-> io,
                      file_before |-> file,
                      legacy_won |-> (last.legacy_won \/ Winner(run) = LegacyJSONStrategy)]
    /\ prev' = Summary(last)
    /\ page' = h
    /\ calls' = calls + 1
    /\ UNCHANGED <<mode, th, cm, lc>>

\* extractor = AdaptiveExtractor(), again: the cache file is read anew
Reconstruct ==
    /\ last.op = "extract"
    /\ ext' = AdaptiveExtractor_init(file)
    /\ last' = [op |-> "init", loaded |-> load_cache(file), file |-> file,
                legacy_won |-> last.legacy_won]
    /\ prev' = Summary(last)
    /\ UNCHANGED <<page, file, clock, mode, calls, th, cm, lc>>

SeqNext ==
    \/ \E h \in DispatchPages, io \in IOs : Dispatch(h, io)
    \/ Reconstruct

SpecSeq == SeqInit /\ [][SeqNext]_vars

\* ------------------------------------------------------------ the fetch wrappers
\* DouyinExtractor._is_captcha_page (both wrappers)
is_captcha_page(h) == h.captcha /\ h.len < SizeThreshold

\* web DouyinExtractor._decode_url: the escapes are rewritten
decode_url(u) == [u EXCEPT !.esc = FALSE]

\* web DouyinExtractor._check_offline
check_offline(h) == h.offline

\* web DouyinExtractor._extract_offline_info
extract_offline_info(h) ==
    Record(NoUrl, Get(h.title, "Offline Stream"), Get(h.nick, "Unknown"), FALSE, EmptyDict)

Error(kind) == [kind |-> "error", error |-> kind, url |-> ""]
CaptchaRequired(room_url) == [kind |-> "error", error |-> "captcha_required", url |-> room_url]

SmallPage(captcha) == Page(4000, captcha, FALSE, <<>>, <<>>, <<>>, NoPace("none"))

\* what a fetch of a room page can bring
FetchedPages ==
    {SmallPage(TRUE), SmallPage(FALSE),
     Page(50000, TRUE, TRUE, <<>>, <<"T0">>, <<>>, NoPace("none")),
     BigPage(<<>>, NoPace("bare")),
     BigPage(<<Cand(1, "flv", "hd", "plain", FALSE)>>, NoPace("none")),
     BigPage(<<Cand(1, "flv", "hd", "rel", FALSE)>>, Wrapped),
     BigPage(<<>>, FirstOnly),
     BigPage(<<Cand(1, "flv", "none", "plain", TRUE),
               Cand(2, "flv", "hd", "plain", FALSE)>>, Truncated)}

FetchResults ==
    {[kind |-> "timeout"], [kind |-> "error"]}
    \cup {[kind |-> "ok", html |-> h] : h \in FetchedPages}

Procs == {"t1", "t2"}
room_url(p) == IF p = "t1" THEN "https://live.douyin.com/1" ELSE "https://live.douyin.com/2"

NoPage == Page(0, FALSE, FALSE, <<>>, <<>>, <<>>, NoPace("none"))
NoDoc == [shape |-> "garbage"]

\* a thread (desktop) or coroutine (web) outside a call; in a call, fetch is how
\* the last session.get / client.get ended and solver how solve_captcha ended
IdleThread ==
    [pc |-> "idle", first |-> NoPage, html |-> NoPage, run |-> Run(NewExtractor(None)),
     out |-> Null, fetches |-> 0, solves |-> 0, doc |-> NoDoc,
     fetch |-> "none", solver |-> "none"]

WrapperFiles ==
    {NoFile, FileOf(CacheDoc(DirectURLStrategy, 0)), FileOf(CacheDoc(JSONWrapperStrategy, 0))}

Init ==
    /\ mode \in {"desktop", "web"}
    /\ file \in WrapperFiles
    /\ ext = AdaptiveExtractor_init(file)      \* web: DouyinExtractor.__init__
    /\ th = [p \in Procs |-> IdleThread]
    /\ calls = 0
    /\ clock = 0
    /\ page = NoPage
    /\ last = Idle
    /\ prev = Idle
    /\ cm = Unused
    /\ lc = Unused

Done(t, out) == [t EXCEPT !.pc = "done", !.out = out]

\* response = self.session.get(room_url, timeout=10) ... up to the size check
\* (desktop), or to the dispatch (web)
DesktopFetch(p, r) ==
    /\ mode = "desktop"
    /\ th[p].pc = "idle"
    /\ calls < MaxCalls
    /\ calls' = calls + 1
    /\ LET t == [IdleThread EXCEPT !.fetches = 1, !.fetch = r.kind]
       IN th' = [th EXCEPT ![p] =
            IF r.kind # "ok" THEN Done(t, Null)
            ELSE IF is_captcha_page(r.html)
            THEN [t EXCEPT !.pc = "solve", !.first = r.html, !.html = r.html]
            ELSE IF r.html.len < SizeThreshold
            THEN Done([t EXCEPT !.first = r.html, !.html = r.html], Null)
            ELSE [t EXCEPT !.pc = "extract", !.first = r.html, !.html = r.html]]
    /\ UNCHANGED <<page, ext, last, prev, file, clock, mode, cm, lc>>

SolverResults == {"cookies", "timeout", "error"}

\* cookies = solver.solve_captcha(room_url): it returns cookies, or raises
\* (TimeoutError after 300 s, or no browser)
SolveCaptcha(p, res) ==
    /\ th[p].pc = "solve"
    /\ th' = [th EXCEPT ![p] =
            IF res = "cookies"
            THEN [@ EXCEPT !.pc = "refetch", !.solves = @ + 1, !.solver = res]
            ELSE Done([@ EXCEPT !.solves = @ + 1, !.solver = res], Null)]
    /\ UNCHANGED <<page, ext, last, prev, file, clock, mode, calls, cm, lc>>

\* the retried page checked for a challenge again, and the solver called again
Refetch_recheck(p, r) ==
    /\ th[p].pc = "refetch"
    /\ LET t == [th[p] EXCEPT !.fetches = @ + 1, !.fetch = r.kind]
       IN th' = [th EXCEPT ![p] =
            IF r.kind # "ok" THEN Done(t, Null)
            ELSE IF is_captcha_page(r.html) THEN [t EXCEPT !.pc = "solve", !.html = r.html]
            ELSE IF r.html.len < SizeThreshold THEN Done([t EXCEPT !.html = r.html], Null)
            ELSE [t EXCEPT !.pc = "extract", !.html = r.html]]
    /\ UNCHANGED <<page, ext, last, prev, file, clock, mode, calls, cm, lc>>

\* response = self.session.get(room_url, timeout=10), again; then the size check
Refetch(p, r) ==
    /\ th[p].pc = "refetch"
    /\ LET t == [th[p] EXCEPT !.fetches = @ + 1, !.fetch = r.kind]
       IN th' = [th EXCEPT ![p] =
            IF r.kind # "ok" THEN Done(t, Null)
            ELSE IF r.html.len < SizeThreshold THEN Done([t EXCEPT !.html = r.html], Null)
            ELSE [t EXCEPT !.pc = "extract", !.html = r.html]]
    /\ UNCHANGED <<page, ext, last, prev, file, clock, mode, calls, cm, lc>>

\* extractor = AdaptiveExtractor(); result = extractor.extract(html, self.cookies),
\* up to the call of _save_cache
DesktopDispatch(p) ==
    /\ mode = "desktop"
    /\ th[p].pc = "extract"
    /\ \E run \in {AdaptiveExtractor_extract(AdaptiveExtractor_init(file), th[p].html)} :
          th' = [th EXCEPT ![p] =
                    IF run.save = <<>> THEN Done([@ EXCEPT !.run = run], run.value)
                    ELSE [@ EXCEPT !.pc = "save_open", !.run = run]]
    /\ UNCHANGED <<page, ext, last, prev, file, clock, mode, calls, cm, lc>>

\* _save_cache: cache = {...}; open(self.cache_file, 'w')
SaveOpen(p, io) ==
    /\ th[p].pc = "save_open"
    /\ io \in {"ok", "open_fails"}
    /\ clock' = clock + 1
    /\ IF io = "ok"
       THEN /\ file' = open_w(file)
            /\ th' = [th EXCEPT ![p] =
                        [@ EXCEPT !.pc = "save_write",
                                  !.doc = CacheDoc(th[p].run.save[1], clock + 1)]]
       ELSE /\ file' = file
            /\ th' = [th EXCEPT ![p] = Done(@, th[p].run.value)]
    /\ UNCHANGED <<page, ext, last, prev, mode, calls, cm, lc>>

\* _save_cache: json.dump(cache, f) and the end of the with block
SaveWrite(p, io) ==
    /\ th[p].pc = "save_write"
    /\ io \in {"ok", "write_fails"}
    /\ file' = IF io = "ok" THEN write_at_0(file, Encode(th[p].doc)) ELSE file
    /\ th' = [th EXCEPT ![p] = Done(@, th[p].run.value)]
    /\ UNCHANGED <<page, ext, last, prev, clock, mode, calls, cm, lc>>

\* web extract_stream: response = await client.get(room_url) ... up to the dispatch
WebFetch(p, r) ==
    /\ mode = "web"
    /\ th[p].pc = "idle"
    /\ calls < MaxCalls
    /\ calls' = calls + 1
    /\ LET t == [IdleThread EXCEPT !.fetches = 1, !.fetch = r.kind]
           got == [t EXCEPT !.first = r.html, !.html = r.html]
       IN th' = [th EXCEPT ![p] =
            IF r.kind = "timeout" THEN Done(t, Error("timeout"))
            ELSE IF r.kind = "error" THEN Done(t, Error("str(e)"))
            ELSE IF is_captcha_page(r.html) THEN Done(got, CaptchaRequired(room_url(p)))
            ELSE IF r.html.len < SizeThreshold THEN Done(got, Error("auth_required"))
            ELSE [got EXCEPT !.pc = "extract"]]
    /\ UNCHANGED <<page, ext, last, prev, file, clock, mode, cm, lc>>

\* web extract_stream: result = self._extractor.extract(html, cookies) ... return;
\* no await in it, so no other coroutine runs in between
WebDispatch(p, io) ==
    /\ mode = "web"
    /\ th[p].pc = "extract"
    /\ \E run \in {AdaptiveExtractor_extract(ext, th[p].html)} :
          /\ io = "ok" \/ run.save # <<>>
          /\ ext' = run.ext
          /\ file' = IF run.save # <<>>
                     THEN save_cache(file, run.save[1], clock + 1, io).file
                     ELSE file
          /\ clock' = IF run.save # <<>> THEN clock + 1 ELSE clock
          /\ th' = [th EXCEPT ![p] =
                Done([@ EXCEPT !.run = run],
                     IF run.value # Null
                     THEN [run.value EXCEPT !.url = decode_url(@)]
                     ELSE IF check_offline(th[p].html)
                     THEN extract_offline_info(th[p].html)
                     ELSE Null)]
    /\ UNCHANGED <<page, last, prev, mode, calls, cm, lc>>

\* the wrapper has returned th[p].out; the thread is free for the next call
Return(p) ==
    /\ th[p].pc = "done"
    /\ th' = [th EXCEPT ![p] = IdleThread]
    /\ UNCHANGED <<page, ext, last, prev, file, clock, mode, calls, cm, lc>>

Next ==
    \E p \in Procs :
        \/ \E r \in FetchResults : DesktopFetch(p, r)
        \/ \E res \in SolverResults : SolveCaptcha(p, res)
        \/ \E r \in FetchResults : Refetch(p, r)
        \/ DesktopDispatch(p)
        \/ \E io \in IOs : SaveOpen(p, io)
        \/ \E io \in IOs : SaveWrite(p, io)
        \/ \E r \in FetchResults : WebFetch(p, r)
        \/ \E io \in IOs : WebDispatch(p, io)
        \/ Return(p)

Spec == Init /\ [][Next]_vars

\* ------------------------------------------------------------ the cookie manager
\* src/web/backend/core/cookie_manager.py: one CookieManager (a singleton), its
\* cookie file, and the coroutines of one event loop that call its methods.
\* A coroutine runs without interruption from one await to the next; the awaits
\* are the acquisitions of the asyncio.Lock and run_in_executor.
Tasks == {"a1", "a2"}

\* a cookie dict, by its keys
BrowserCookies == {"sessionid"}
FileCookies == {"ttwid"}

\* douyin_cookies.json: fresh means saved_at is less than 24 hours back
NoCookieFile == [st |-> "absent", cookies |-> {}, fresh |-> FALSE]
CorruptCookieFile == [st |-> "corrupt", cookies |-> {}, fresh |-> FALSE]
CookieFile(c, f) == [st |-> "ok", cookies |-> c, fresh |-> f]

CookieFiles ==
    {NoCookieFile, CorruptCookieFile} \cup {CookieFile(FileCookies, f) : f \in BOOLEAN}

\* what _sync_extract_browser in the executor comes back with
BrowserResults ==
    {[raised |-> TRUE, cookies |-> {}],
     [raised |-> FALSE, cookies |-> {}],
     [raised |-> FALSE, cookies |-> BrowserCookies]}

CookieOps == {"load_cookies", "update_cookies", "save_cookies"}

IdleTask == [pc |-> "idle", op |-> "none", ret |-> <<>>]

\* CookieManager.__init__
CookieManager_init == [cookies |-> {}, last_updated |-> "None", lock |-> FALSE]

OtherVars == <<page, ext, last, prev, file, clock, mode, calls, th>>

CookiesInit ==
    /\ cm \in {[mgr |-> CookieManager_init, file |-> f, task |-> [t \in Tasks |-> IdleTask]] :
                   f \in CookieFiles}
    /\ lc = Unused
    /\ page = Unused /\ ext = Unused /\ last = Idle /\ prev = Idle
    /\ file = NoFile /\ clock = 0 /\ mode = "none" /\ calls = 0 /\ th = Unused

\* a coroutine calls a method and arrives at its first `async with self._lock`
CallCookies(t, op) ==
    /\ cm.task[t].pc = "idle"
    /\ cm' = [cm EXCEPT !.task[t] = [pc |-> op, op |-> op, ret |-> <<>>]]
    /\ UNCHANGED <<OtherVars, lc>>

\* load_cookies from the acquisition of the lock to the return of the file's
\* cookies or to the await of run_in_executor in _extract_from_browser
load_cookies(t) ==
    /\ cm.task[t].pc = "load_cookies"
    /\ ~cm.mgr.lock
    /\ IF cm.file.st = "ok" /\ cm.file.fresh
       THEN cm' = [cm EXCEPT !.mgr.cookies = cm.file.cookies,
                             !.mgr.last_updated = "saved_at",
                             !.task[t].pc = "done",
                             !.task[t].ret = <<cm.file.cookies>>]
       ELSE cm' = [cm EXCEPT !.mgr.lock = TRUE,
                             !.task[t].pc = "run_in_executor"]
    /\ UNCHANGED <<OtherVars, lc>>

\* _extract_from_browser from the result of the executor on, inside
\* load_cookies, which holds the lock: up to `await self.save_cookies()` when
\* there are cookies, else up to the return of load_cookies
extract_from_browser(t, res) ==
    /\ cm.task[t].pc = "run_in_executor"
    /\ IF res.raised \/ res.cookies = {}
       THEN cm' = [cm EXCEPT !.mgr.lock = FALSE,
                             !.task[t].pc = "done",
                             !.task[t].ret = <<cm.mgr.cookies>>]
       ELSE cm' = [cm EXCEPT !.mgr.cookies = res.cookies,
                             !.mgr.last_updated = "now",
                             !.task[t].pc = "save_cookies"]
    /\ UNCHANGED <<OtherVars, lc>>

\* update_cookies from the acquisition of the lock to `await self.save_cookies()`
update_cookies(t, new) ==
    /\ cm.task[t].pc = "update_cookies"
    /\ ~cm.mgr.lock
    /\ cm' = [cm EXCEPT !.mgr.cookies = @ \cup new,
                         !.mgr.last_updated = "now",
                         !.task[t].pc = "save_cookies"]
    /\ UNCHANGED <<OtherVars, lc>>

\* open(COOKIES_FILE, 'w') and json.dump, any exception logged
write_cookies(f, cookies, io) ==
    IF io = "open_fails" THEN f
    ELSE IF io = "write_fails" THEN CorruptCookieFile
    ELSE CookieFile(cookies, TRUE)

\* save_cookies from the acquisition of the lock to its release, and on to the
\* return of the method that awaited it
save_cookies(t, io) ==
    /\ cm.task[t].pc = "save_cookies"
    /\ ~cm.mgr.lock
    /\ cm' = [cm EXCEPT !.file = write_cookies(cm.file, cm.mgr.cookies, io),
                         !.task[t].pc = "done",
                         !.task[t].ret = IF cm.task[t].op = "load_cookies"
                                         THEN <<cm.mgr.cookies>> ELSE <<>>]
    /\ UNCHANGED <<OtherVars, lc>>

\* the caller takes the result
ReturnCookies(t) ==
    /\ cm.task[t].pc = "done"
    /\ cm' = [cm EXCEPT !.task[t] = IdleTask]
    /\ UNCHANGED <<OtherVars, lc>>

\* clear(): no lock taken
clear ==
    /\ cm.mgr.cookies # {} \/ cm.file.st # "absent"
    /\ cm' = [cm EXCEPT !.mgr.cookies = {},
                         !.mgr.last_updated = "None",
                         !.file = NoCookieFile]
    /\ UNCHANGED <<OtherVars, lc>>

\* the saved cookies become 24 hours old
Expire ==
    /\ cm.file.st = "ok" /\ cm.file.fresh
    /\ cm' = [cm EXCEPT !.file.fresh = FALSE]
    /\ UNCHANGED <<OtherVars, lc>>

CookiesNext ==
    \/ \E t \in Tasks :
          \/ \E op \in CookieOps : CallCookies(t, op)
          \/ load_cookies(t)
          \/ \E res \in BrowserResults : extract_from_browser(t, res)
          \/ \E new \in {FileCookies} : update_cookies(t, new)
          \/ \E io \in IOs : save_cookies(t, io)
          \/ ReturnCookies(t)
    \/ clear
    \/ Expire

\* The executor finishes its job; asyncio.Lock wakes its waiters first come,
\* first served, so a coroutine waiting for a lock that is released again and
\* again gets it. Calls, clear() and the passing of time are the environment's.
CookiesFairness ==
    \A t \in Tasks :
        /\ WF_vars(\E res \in BrowserResults : extract_from_browser(t, res))
        /\ SF_vars(load_cookies(t))
        /\ SF_vars(\E new \in {FileCookies} : update_cookies(t, new))
        /\ SF_vars(\E io \in IOs : save_cookies(t, io))

SpecCookies == CookiesInit /\ [][CookiesNext]_vars /\ CookiesFairness

\* ------------------------------------------------------------ the live checker
\* src/desktop/core/live_checker.py: one LiveStatusChecker, the thread that
\* calls its methods (the UI) and the threads running _check_loop.
Workers == {"w1", "w2"}

Urls == {"u1", "u2"}

NotStarted == [pc |-> "unborn", urls |-> <<>>, url |-> "", is_live |-> FALSE]

\* LiveStatusChecker.__init__; _statuses[u] = "None" stands for no entry
LiveStatusChecker_init ==
    [running |-> FALSE, thread |-> <<>>, urls_to_check |-> <<>>,
     statuses |-> [u \in Urls |-> "None"]]

\* is_live as get_status reports it
Status(is_live) == IF is_live THEN "live" ELSE "offline"

\* caller: where the calling thread is; fired: the urls a callback was called
\* for since remove_url was last called for them
CheckerInit ==
    /\ lc = [obj |-> LiveStatusChecker_init,
             w |-> [x \in Workers |-> NotStarted],
             caller |-> "idle",
             fired |-> {}]
    /\ cm = Unused
    /\ page = Unused /\ ext = Unused /\ last = Idle /\ prev = Idle
    /\ file = NoFile /\ clock = 0 /\ mode = "none" /\ calls = 0 /\ th = Unused

\* add_url(url)
add_url(u) ==
    /\ lc.caller = "idle"
    /\ lc' = [lc EXCEPT !.obj.urls_to_check =
                            IF \E i \in DOMAIN @ : @[i] = u THEN @ ELSE Append(@, u)]
    /\ UNCHANGED <<OtherVars, cm>>

\* remove_url(url)
remove_url(u) ==
    /\ lc.caller = "idle"
    /\ lc' = [lc EXCEPT !.obj.urls_to_check = SelectSeq(@, LAMBDA v : v # u),
                         !.obj.statuses[u] = "None",
                         !.fired = @ \ {u}]
    /\ UNCHANGED <<OtherVars, cm>>

\* start(): a Thread object that is not running is taken for the new thread
start(x) ==
    /\ lc.caller = "idle"
    /\ lc.w[x].pc \in {"unborn", "exited"}
    /\ IF lc.obj.running
       THEN lc' = lc
       ELSE lc' = [lc EXCEPT !.obj.running = TRUE,
                             !.obj.thread = <<x>>,
                             !.w[x] = [NotStarted EXCEPT !.pc = "while"]]
    /\ UNCHANGED <<OtherVars, cm>>

\* stop() up to self._thread.join(timeout=2)
stop ==
    /\ lc.caller = "idle"
    /\ lc' = [lc EXCEPT !.obj.running = FALSE,
                         !.caller = IF lc.obj.thread = <<>> THEN "idle" ELSE "join"]
    /\ UNCHANGED <<OtherVars, cm>>

\* join(timeout=2) returns: the thread has ended, or two seconds have passed
\* with the thread inside _check_single (every other step of the loop is over
\* within a second or so)
join(timed_out) ==
    /\ lc.caller = "join"
    /\ IF timed_out
       THEN lc.w[lc.obj.thread[1]].pc = "check_single"
       ELSE lc.w[lc.obj.thread[1]].pc = "exited"
    /\ lc' = [lc EXCEPT !.caller = "idle"]
    /\ UNCHANGED <<OtherVars, cm>>

\* _check_loop: `while self._running` and the copy of the url list
LoopWhile(x) ==
    /\ lc.w[x].pc = "while"
    /\ IF lc.obj.running
       THEN lc' = [lc EXCEPT !.w[x].pc = "for",
                             !.w[x].urls = lc.obj.urls_to_check]
       ELSE lc' = [lc EXCEPT !.w[x] = [NotStarted EXCEPT !.pc = "exited"]]
    /\ UNCHANGED <<OtherVars, cm>>

\* `for url in urls: if not self._running: break`
LoopFor(x) ==
    /\ lc.w[x].pc = "for"
    /\ IF lc.w[x].urls = <<>> \/ ~lc.obj.running
       THEN lc' = [lc EXCEPT !.w[x].pc = "wait", !.w[x].urls = <<>>, !.w[x].url = ""]
       ELSE lc' = [lc EXCEPT !.w[x].pc = "check_single",
                             !.w[x].url = Head(lc.w[x].urls),
                             !.w[x].urls = Tail(lc.w[x].urls)]
    /\ UNCHANGED <<OtherVars, cm>>

\* _check_single(url) returns
check_single(x, is_live) ==
    /\ lc.w[x].pc = "check_single"
    /\ lc' = [lc EXCEPT !.w[x].pc = "update", !.w[x].is_live = is_live]
    /\ UNCHANGED <<OtherVars, cm>>

\* the status written, the callbacks called on a change, time.sleep(1)
LoopUpdate(x) ==
    /\ lc.w[x].pc = "update"
    /\ LET u == lc.w[x].url
           old_status == lc.obj.statuses[u]
           new_status == Status(lc.w[x].is_live)
       IN lc' = [lc EXCEPT !.obj.statuses[u] = new_status,
                           !.fired = IF old_status = "None" \/ old_status # new_status
                                     THEN @ \cup {u} ELSE @,
                           !.w[x].pc = "for",
                           !.w[x].is_live = FALSE]
    /\ UNCHANGED <<OtherVars, cm>>

\* the wait for the next round, left after CHECK_INTERVAL seconds or within a
\* second of _running turning false
LoopWait(x) ==
    /\ lc.w[x].pc = "wait"
    /\ lc' = [lc EXCEPT !.w[x].pc = "while"]
    /\ UNCHANGED <<OtherVars, cm>>

CheckerNext ==
    \/ \E u \in Urls : add_url(u)
    \/ \E u \in Urls : remove_url(u)
    \/ \E x \in Workers : start(x)
    \/ stop
    \/ \E timed_out \in BOOLEAN : join(timed_out)
    \/ \E x \in Workers :
          \/ LoopWhile(x)
          \/ LoopFor(x)
          \/ \E is_live \in BOOLEAN : check_single(x, is_live)
          \/ LoopUpdate(x)
          \/ LoopWait(x)

SpecChecker == CheckerInit /\ [][CheckerNext]_vars

\* ============================================================ claims
ExtractCalls(trace) ==
    LET ex == SelectSeq(trace, LAMBDA e : e.op = "extract")
    IN [i \in 1..Len(ex) |-> ex[i].s]

PriorityOrder == <<DirectURLStrategy, JSONWrapperStrategy, LegacyJSONStrategy>>

\* the dispatch called s.can_extract first and, if that passed, s.extract next
FirstIs(l, s) ==
    /\ l.trace # <<>>
    /\ l.trace[1] = Ev("can_extract", s)
    /\ can_extract(s, l.html) => Len(l.trace) >= 2 /\ l.trace[2] = Ev("extract", s)

ColdAllPass(l) ==
    /\ l.op = "extract"
    /\ ~Truthy(l.before.last_working_strategy)
    /\ \A s \in StrategyNames : can_extract(s, l.html)

\* C1: a dispatch with an empty last_working_strategy on a page that passes all
\* three pre-checks calls extract of strategy 1, then 2, then 3, goes on only after
\* a null, and calls nothing after the first record.
C1_ColdOrder ==
    ColdAllPass(last) =>
        LET made == ExtractCalls(last.trace)
            n == Len(made)
        IN /\ n >= 1
           /\ made = SubSeq(PriorityOrder, 1, n)
           /\ \A i \in 1..(n - 1) : extract(made[i], last.html).value = Null
           /\ n < 3 => extract(made[n], last.html).value # Null
           /\ extract(made[n], last.html).value # Null =>
                 /\ last.trace[Len(last.trace)] = Ev("extract", made[n])
                 /\ last.value = extract(made[n], last.html).value

C1_Witness ==
    /\ ColdAllPass(last)
    /\ ExtractCalls(last.trace) = <<DirectURLStrategy, JSONWrapperStrategy>>
    /\ last.value # Null

\* C2 as stated: once strategy 3 has won a dispatch, every later dispatch, on the
\* same extractor or on one constructed afterwards, attempts strategy 3 first.
C2_EveryLaterDispatch ==
    (last.op = "extract" /\ prev.op # "none" /\ prev.legacy_won) =>
        FirstIs(last, LegacyJSONStrategy)

\* C2 amended: after strategy 3 won, the next dispatch on the same extractor
\* attempts it first; so does the first dispatch of an extractor that loaded its
\* name from the cache file; and a win whose cache write succeeded leaves a file
\* a new extractor loads that name from.
C2_NextDispatch ==
    /\ (last.op = "extract" /\ prev.op = "extract" /\ prev.winner = LegacyJSONStrategy) =>
          FirstIs(last, LegacyJSONStrategy)
    /\ (last.op = "extract" /\ prev.op = "init" /\ prev.loaded = LegacyJSONStrategy) =>
          FirstIs(last, LegacyJSONStrategy)
    /\ (last.op = "extract" /\ last.save = <<LegacyJSONStrategy>> /\ last.io = "ok"
        /\ last.file_before.st # "unreadable") =>
          /\ load_cache(file) = LegacyJSONStrategy
          /\ ext.last_working_strategy = LegacyJSONStrategy

C2_Witness ==
    /\ last.op = "extract" /\ prev.op = "init" /\ prev.loaded = LegacyJSONStrategy
    /\ prev.legacy_won
    /\ last.trace[2] = Ev("extract", LegacyJSONStrategy)
    /\ last.winner = LegacyJSONStrategy

\* C3: two consecutive dispatches of the same page, the first from a set
\* last_working_strategy, return equal records and leave the same
\* last_working_strategy.
C3_Idempotent ==
    (last.op = "extract" /\ prev.op = "extract" /\ prev.html = last.html
     /\ Truthy(prev.before)) =>
        /\ last.value = prev.value
        /\ last.after.last_working_strategy = prev.after

C3_Witness ==
    /\ last.op = "extract" /\ prev.op = "extract" /\ prev.html = last.html
    /\ Truthy(prev.before) /\ prev.before # prev.after
    /\ last.value # Null

AttemptOrder(lws) ==
    IF lws \in StrategyNames
    THEN <<lws>> \o SelectSeq(PriorityOrder, LAMBDA s : s # lws)
    ELSE PriorityOrder

RECURSIVE FirstRecord(_, _)
FirstRecord(order, h) ==
    IF order = <<>> THEN Null
    ELSE IF can_extract(Head(order), h) /\ extract(Head(order), h).value # Null
    THEN extract(Head(order), h).value
    ELSE FirstRecord(Tail(order), h)

\* C6: a dispatch returns the record of the first strategy in attempt order (the
\* cached one, then the others by priority) whose pre-check passes and whose
\* extract is not null, and null exactly when there is no such strategy.
C6_FirstRecordWins ==
    last.op = "extract" =>
        /\ ~last.raised
        /\ last.value = FirstRecord(AttemptOrder(last.before.last_working_strategy), last.html)
        /\ (last.value = Null) <=>
              \A s \in StrategyNames :
                 ~can_extract(s, last.html) \/ extract(s, last.html).value = Null

C6_Witness ==
    /\ last.op = "extract"
    /\ last.before.last_working_strategy = LegacyJSONStrategy
    /\ can_extract(LegacyJSONStrategy, last.html)
    /\ last.value # Null
    /\ last.value = extract(DirectURLStrategy, last.html).value

\* missing, unreadable, no JSON, a JSON list, or a JSON object whose
\* last_working_strategy is a number
BadCacheFile(f) ==
    \/ f.st \in {"absent", "unreadable"}
    \/ json_load(f.bytes).shape \in {"error", "list"}
    \/ json_load(f.bytes).shape = "dict" /\ json_load(f.bytes).lws = <<"7">>

\* C8 as stated: an extractor constructed on a cache file that is missing,
\* unreadable, no JSON, or JSON of the wrong shape has an empty
\* last_working_strategy and dispatches as a cold one does.
C8_BadFileEmptyCache ==
    (last.op = "init" /\ BadCacheFile(last.file)) =>
        /\ ~Truthy(ext.last_working_strategy)
        /\ \A h \in DispatchPages :
              AdaptiveExtractor_extract(ext, h).trace
                 = AdaptiveExtractor_extract(NewExtractor(None), h).trace

\* C9: when the write of the cache file fails in a winning dispatch, the dispatch
\* raises nothing, returns the winner's record, and last_working_strategy is the
\* winner.
C9_SaveFailureNotFatal ==
    (last.op = "extract" /\ last.save # <<>>
     /\ (last.io # "ok" \/ last.file_before.st = "unreadable")) =>
        /\ ~last.raised
        /\ last.value # Null
        /\ last.value = extract(last.save[1], last.html).value
        /\ ext.last_working_strategy = last.save[1]

C9_Witness ==
    /\ last.op = "extract" /\ last.save = <<JSONWrapperStrategy>>
    /\ last.io = "write_fails"
    /\ file.bytes = <<>>
    /\ last.value = extract(JSONWrapperStrategy, last.html).value
    /\ ext.last_working_strategy = JSONWrapperStrategy

CompleteRecord(v) ==
    /\ v.kind = "record"
    /\ DOMAIN v = {"kind", "url", "title", "author", "is_live", "qualities"}
    /\ v.url # NoUrl
    /\ DOMAIN v.qualities # {}

C4_QualityMapInvariant ==
    \A p \in Procs :
        (th[p].pc = "done" /\ th[p].out.kind = "record") =>
            /\ th[p].out.is_live =>
                  /\ th[p].out.qualities # EmptyDict
                  /\ th[p].out.url \in Values(th[p].out.qualities)
            /\ th[p].run.value # Null => th[p].out = th[p].run.value

\* C5 as stated: a call whose fetched page is a challenge page (marker present,
\* length below 10000) ends with CaptchaRequired carrying the room URL of the
\* call, and no can_extract or extract is called in it.
C5_ChallengeShortCircuit ==
    \A p \in Procs :
        (th[p].pc = "done" /\ is_captcha_page(th[p].first)) =>
            /\ th[p].out = CaptchaRequired(room_url(p))
            /\ th[p].run.trace = <<>>

CompleteOutput(f) ==
    f.st = "ok" => f.bytes = <<>> \/ json_load(f.bytes).shape = "dict"

\* C10 as stated: at most one writer at a time is between the open and the write
\* of _save_cache, and with no writer in it the cache file holds the complete
\* output of one writer.
C10_SerializedWrites ==
    /\ Cardinality({p \in Procs : th[p].pc = "save_write"}) <= 1
    /\ (\A p \in Procs : th[p].pc # "save_write") => CompleteOutput(file)

\* the payload of a wrapped page: the state of the last element of the array
PayloadState(h) == h.pace.json.items[Len(h.pace.json.items)].state

\* a wrapped-array page: the quotes escaped, a list whose last element holds a
\* well-formed state (a room, a stream map of URLs) after elements without one
WrappedForm(h) ==
    /\ h.pace.kind = "push" /\ h.pace.esc = "all" /\ h.pace.json.t = "list"
    /\ h.pace.json.items # <<>>
    /\ \A i \in 1..(Len(h.pace.json.items) - 1) : h.pace.json.items[i].t = "other"
    /\ h.pace.json.items[Len(h.pace.json.items)].t = "state"
    /\ PayloadState(h).t = "dict"
    /\ PayloadState(h).room.t = "ok"
    /\ PayloadState(h).streams.t = "map"
    /\ PayloadState(h).streams.entries # <<>>
    /\ \A i \in DOMAIN PayloadState(h).streams.entries :
          PayloadState(h).streams.entries[i].t = "url"

\* the same payload as a plain list, its quotes not escaped
UnwrappedForm(h) ==
    [h EXCEPT !.pace = Push("none", [t |-> "list", items |-> <<StateItem(PayloadState(h))>>])]

\* C11 as stated: the record strategy 2 makes of a wrapped-array page equals the
\* record strategy 3 makes of the unwrapped list of the same payload, in all of
\* url, title, author, is_live and qualities.
C11_StrategyEquivalence ==
    (last.op = "extract" /\ last.strategy = JSONWrapperStrategy /\ WrappedForm(page)) =>
        last.value = LegacyJSONStrategy_extract(UnwrappedForm(page)).value

\* C12: on the empty page extract of each strategy, and the dispatch of an
\* extractor with any cached name, returns null and raises nothing.
C12_EmptyInput ==
    (page = NoPage /\ last.op \in {"extract", "dispatch"}) =>
        /\ last.value = Null
        /\ ~last.raised

C12_Witness ==
    /\ page = NoPage /\ last.op = "dispatch" /\ last.value = Null
    /\ ext.last_working_strategy = LegacyJSONStrategy

\* the status field of the room the payload of the page holds (<<>>: none)
PayloadStatus(h) ==
    LET found == LastState(h.pace.json.items)
    IN IF found # <<>> /\ found[1].t = "dict" /\ found[1].room.t = "ok"
       THEN found[1].room.status
       ELSE <<>>

\* C13: a record of strategy 2 has is_live true exactly when the status of the
\* room is 2; another status, or none, gives false.
C13_LiveSignal ==
    (last.op = "extract" /\ last.strategy = JSONWrapperStrategy /\ last.value # Null) =>
        (last.value.is_live <=> PayloadStatus(page) = <<2>>)

C13_Witness ==
    /\ last.op = "extract" /\ last.strategy = JSONWrapperStrategy /\ last.value # Null
    /\ PayloadStatus(page) = <<4>>
    /\ ~last.value.is_live

\* the quoted absolute URLs of one format, in document order
Candidates(h, fmt) == SelectSeq(h.urls, LAMBDA u : u.fmt = fmt /\ u.tail # "rel")

\* C14: the url of a record of strategy 1 is the first FLV candidate of the page
\* if it has one and the first M3U8 candidate otherwise, whatever their labels.
C14_BestUrl ==
    (last.op = "extract" /\ last.strategy = DirectURLStrategy /\ last.value # Null) =>
        last.value.url = IF Candidates(page, "flv") # <<>>
                         THEN Candidates(page, "flv")[1]
                         ELSE Candidates(page, "m3u8")[1]

C14_Witness ==
    /\ last.op = "extract" /\ last.strategy = DirectURLStrategy /\ last.value # Null
    /\ Len(page.urls) = 3
    /\ page.urls[1].fmt = "m3u8" /\ page.urls[1].q = "hd" /\ page.urls[1].tail = "plain"
    /\ page.urls[2].fmt = "flv" /\ page.urls[2].q = "none" /\ page.urls[2].tail = "plain"
    /\ page.urls[3].fmt = "flv" /\ page.urls[3].q = "hd" /\ page.urls[3].tail = "plain"
    /\ last.value.url = page.urls[2]

\* C15 as stated: a call whose page is shorter than 10000 and no challenge page
\* ends with AuthRequired and without a dispatch, and no strategy is run on a
\* page shorter than 10000.
C15_SizeGate ==
    \A p \in Procs :
        /\ (th[p].pc = "done" /\ th[p].fetch = "ok" /\ th[p].html.len < SizeThreshold
            /\ ~is_captcha_page(th[p].html)) =>
              /\ th[p].out = Error("auth_required")
              /\ th[p].run.trace = <<>>
        /\ th[p].run.trace # <<>> => th[p].html.len >= SizeThreshold

\* C16: a call makes at most two fetches and at most one solver call, and a
\* second fetch only after a challenge page on the first and cookies from the
\* solver.
C16_SingleRetry ==
    \A p \in Procs :
        /\ th[p].fetches <= 2
        /\ th[p].solves <= 1
        /\ th[p].fetches = 2 =>
              /\ is_captcha_page(th[p].first)
              /\ th[p].solver = "cookies"
        /\ th[p].solves = 1 => is_captcha_page(th[p].first)

C16_Witness ==
    \E p \in Procs :
        /\ th[p].pc = "done" /\ th[p].fetches = 2 /\ th[p].solves = 1
        /\ is_captcha_page(th[p].html)
        /\ th[p].out = Null

\* C17 as stated: a call whose fetch timed out, and a call whose solver timed
\* out, ends with an error of a kind of its own, none of those of the other
\* outcomes.
C17_TimeoutsDistinct ==
    \A p \in Procs :
        /\ (th[p].pc = "done" /\ th[p].fetch = "timeout") => th[p].out = Error("timeout")
        /\ (th[p].pc = "done" /\ th[p].solver = "timeout") =>
              /\ th[p].out.kind = "error"
              /\ th[p].out.error \notin {"auth_required", "captcha_required", "str(e)"}

\* how a finished call went
Situation(t) ==
    CASE t.fetch \in {"timeout", "error"} -> "fetch_error"
      [] t.fetch = "ok" /\ is_captcha_page(t.first) -> "captcha"
      [] t.run.trace # <<>> /\ t.run.value = Null /\ t.html.offline -> "offline"
      [] t.run.trace # <<>> /\ t.run.value = Null /\ ~t.html.offline -> "no_stream_data"
      [] OTHER -> "other"

\* C18 as stated: the outcome of a call in which every strategy failed differs
\* from that of a call on an offline room, on a challenge page and with a fetch
\* error, and a fetch error is never reported as null.
C18_FailureTaxonomy ==
    \A p, q \in Procs :
        /\ (th[p].pc = "done" /\ Situation(th[p]) = "fetch_error") => th[p].out # Null
        /\ (th[p].pc = "done" /\ th[q].pc = "done"
            /\ Situation(th[p]) = "no_stream_data"
            /\ Situation(th[q]) \in {"offline", "captcha", "fetch_error"}) =>
              th[p].out # th[q].out

\* the strategies whose can_extract a dispatch called, in call order
PreChecks(trace) ==
    LET pre == SelectSeq(trace, LAMBDA e : e.op = "can_extract")
    IN [i \in 1..Len(pre) |-> pre[i].s]

\* a dispatch from a cached strategy that fails its pre-check or returns null
CachedMiss(l) ==
    /\ l.op = "extract"
    /\ l.before.last_working_strategy \in StrategyNames
    /\ \/ ~can_extract(l.before.last_working_strategy, l.html)
       \/ extract(l.before.last_working_strategy, l.html).value = Null

\* C19: after a miss of the cached strategy the dispatch attempts the other
\* strategies in ascending priority, up to the first that returns a record,
\* which it returns; the cached strategy is attempted once only.
C19_FallbackAfterMiss ==
    CachedMiss(last) =>
        LET lws == last.before.last_working_strategy
            others == SelectSeq(PriorityOrder, LAMBDA s : s # lws)
            pre == PreChecks(last.trace)
            n == Len(pre) - 1
        IN /\ n \in 1..2
           /\ pre = <<lws>> \o SubSeq(others, 1, n)
           /\ Cardinality({i \in DOMAIN last.trace : last.trace[i].s = lws})
                 = IF can_extract(lws, last.html) THEN 2 ELSE 1
           /\ \A i \in 1..(n - 1) :
                 ~can_extract(others[i], last.html)
                 \/ extract(others[i], last.html).value = Null
           /\ last.value = FirstRecord(others, last.html)
           /\ last.value = Null => n = 2
           /\ last.value # Null => last.value = extract(others[n], last.html).value

C19_Witness ==
    /\ CachedMiss(last)
    /\ last.before.last_working_strategy = JSONWrapperStrategy
    /\ can_extract(JSONWrapperStrategy, last.html)
    /\ ExtractCalls(last.trace) = <<JSONWrapperStrategy, LegacyJSONStrategy>>
    /\ last.value # Null

\* C20: a strategy whose can_extract is false in a dispatch has its extract not
\* called and its counters as before; a dispatch in which every can_extract is
\* false changes neither the extractor nor the cache file.
C20_SkipLeavesCounters ==
    last.op = "extract" =>
        /\ \A s \in StrategyNames :
              ~can_extract(s, last.html) =>
                 /\ \A i \in DOMAIN last.trace : last.trace[i] # Ev("extract", s)
                 /\ last.after.counts[s] = last.before.counts[s]
        /\ (\A s \in StrategyNames : ~can_extract(s, last.html)) =>
              /\ last.after = last.before
              /\ file = last.file_before

C20_Witness ==
    /\ last.op = "extract"
    /\ ~can_extract(DirectURLStrategy, last.html)
    /\ last.trace[1] = Ev("can_extract", DirectURLStrategy)
    /\ last.winner = LegacyJSONStrategy
    /\ last.after.counts[DirectURLStrategy] = last.before.counts[DirectURLStrategy]
    /\ last.after.counts[JSONWrapperStrategy] # last.before.counts[JSONWrapperStrategy]

C22_OverwrittenOnEverySuccess ==
    last.op = "extract" =>
        /\ last.value # Null => file = FileOf(CacheDoc(last.winner, clock))
        /\ last.value = Null =>
              /\ file = last.file_before
              /\ last.after.last_working_strategy = last.before.last_working_strategy

\* C22 amended: a win of a strategy other than the cached one writes the file,
\* which, the write succeeding, then holds the winner's name and the time and
\* nothing else; a win of the cached strategy and a dispatch without a win do
\* not touch the file, and the latter leaves last_working_strategy as it was.
C22_OverwrittenOnChange ==
    last.op = "extract" =>
        /\ (last.value # Null /\ last.winner # last.before.last_working_strategy) =>
              /\ last.save = <<last.winner>>
              /\ (last.io = "ok" /\ last.file_before.st # "unreadable") =>
                    file = FileOf(CacheDoc(last.winner, clock))
        /\ (last.value # Null /\ last.winner = last.before.last_working_strategy) =>
              /\ last.save = <<>>
              /\ file = last.file_before
        /\ last.value = Null =>
              /\ last.save = <<>>
              /\ file = last.file_before
              /\ last.after.last_working_strategy = last.before.last_working_strategy

C22_Witness ==
    /\ last.op = "extract" /\ last.value # Null
    /\ last.winner = last.before.last_working_strategy
    /\ file = last.file_before
    /\ load_cache(file) # last.winner

\* C23 as stated: strategy 2 returns null when the state holds no room info or
\* no stream map, or one of the wrong type.
C23_NoPartialRecord ==
    (last.op = "extract" /\ last.strategy = JSONWrapperStrategy
     /\ page.pace.kind = "push" /\ page.pace.esc # "inner" /\ page.pace.json.t = "list"
     /\ LastState(page.pace.json.items) # <<>>
     /\ LastState(page.pace.json.items)[1].t = "dict"
     /\ \/ LastState(page.pace.json.items)[1].room.t # "ok"
        \/ LastState(page.pace.json.items)[1].streams.t # "map") =>
        last.value = Null

\* a page of strategy 2 whose payload parses to a list
ParsedList(h) ==
    h.pace.kind = "push" /\ h.pace.esc # "inner" /\ h.pace.json.t = "list"

StateIndexes(items) == {i \in DOMAIN items : items[i].t = "state"}

\* C24: strategy 2 returns what it returns for the list cut down to its last
\* element with a state: null if there is none, and null if that state is
\* empty or has no stream map, whatever the elements before it hold.
C24_ReverseScan ==
    (last.op = "extract" /\ last.strategy = JSONWrapperStrategy /\ ParsedList(page)) =>
        LET items == page.pace.json.items
            idx == StateIndexes(items)
        IN IF idx = {} THEN last.value = Null
           ELSE LET k == CHOOSE i \in idx : \A j \in idx : j <= i
                    only == [page EXCEPT !.pace.json.items = <<items[k]>>]
                IN /\ last.value = JSONWrapperStrategy_extract(only).value
                   /\ items[k].state.t \in {"none", "empty"} => last.value = Null
                   /\ (items[k].state.t = "dict" /\ items[k].state.streams.t = "missing") =>
                         last.value = Null

C24_Witness ==
    /\ last.op = "extract" /\ last.strategy = JSONWrapperStrategy /\ ParsedList(page)
    /\ page.pace.json.items = <<GoodItem, StateItem([t |-> "empty"])>>
    /\ last.value = Null

\* C25 as stated: the qualities of a record of strategy 1 have a key for each
\* token a candidate carries, mapped to the first candidate of the page with
\* that token, FLV or M3U8; with no token at all they have one synthetic key.
C25_FirstOccurrenceWins ==
    (last.op = "extract" /\ last.strategy = DirectURLStrategy /\ last.value # Null) =>
        LET cands == SelectSeq(page.urls, LAMBDA u : u.tail # "rel")
            tokens == {cands[i].q : i \in DOMAIN cands} \cap QualityTokens
        IN IF tokens = {} THEN DOMAIN last.value.qualities = {"best"}
           ELSE /\ DOMAIN last.value.qualities = tokens
                /\ \A t \in tokens :
                      last.value.qualities[t] = SelectSeq(cands, LAMBDA u : u.q = t)[1]

StaleDispatch(l) ==
    /\ l.op = "extract"
    /\ Truthy(l.before.last_working_strategy)
    /\ l.before.last_working_strategy \notin StrategyNames

\* C27: a dispatch from a name of no strategy pre-checks the strategies in
\* ascending priority, skipping none, up to the first record, as a dispatch
\* from an empty cache does; a win replaces the name by the winner's.
C27_StaleCacheEntry ==
    StaleDispatch(last) =>
        LET pre == PreChecks(last.trace)
            n == Len(pre)
        IN /\ n >= 1
           /\ pre = SubSeq(PriorityOrder, 1, n)
           /\ last.value = FirstRecord(PriorityOrder, last.html)
           /\ last.value = Null => n = 3
           /\ last.trace = AdaptiveExtractor_extract(NewExtractor(None), last.html).trace
           /\ last.value # Null =>
                 /\ last.after.last_working_strategy = pre[n]
                 /\ last.save = <<pre[n]>>
           /\ last.value = Null =>
                 last.after.last_working_strategy = last.before.last_working_strategy

C27_Witness ==
    /\ StaleDispatch(last)
    /\ last.before.last_working_strategy = "Bogus"
    /\ last.winner = LegacyJSONStrategy
    /\ ext.last_working_strategy = LegacyJSONStrategy
    /\ load_cache(file) = LegacyJSONStrategy

\* C28 as stated: every call of load_cookies that has started returns the
\* cookie map in the end.
C28_LoadCompletes ==
    \A t \in Tasks :
        (cm.task[t].pc = "load_cookies") ~> (cm.task[t].pc = "done" /\ cm.task[t].ret # <<>>)

\* the threads inside _check_single or handling its result
Checking == {x \in Workers : lc.w[x].pc \in {"check_single", "update"}}

\* C29 as stated: at most one _check_loop thread is executing a check at any
\* time, whatever start() and stop() calls were made.
C29_SingleCheckLoop == Cardinality(Checking) <= 1

\* C30 as stated: a url that is not monitored (remove_url has returned for it
\* and add_url was not called since) has no status and had no callback since.
C30_RemovalDurable ==
    \A u \in Urls :
        (lc.caller = "idle" /\ \A i \in DOMAIN lc.obj.urls_to_check : lc.obj.urls_to_check[i] # u) =>
            lc.obj.statuses[u] = "None" /\ u \notin lc.fired

====
